---- MODULE Spec2Model ----
(***************************************************************************)
(* Section-plane engine of descriptive-geometry-master                     *)
(* (src/utils/sectionPlane.ts): plane/triangle intersector, segment        *)
(* deduplicator, loop assembler, analytic cylinder and cone sections and   *)
(* the view projector.                                                     *)
(*                                                                         *)
(* Mesh coordinates are integers on a grid whose unit is 2e-5 scene units, *)
(* so the welding tolerance 1e-4 is Tol = 5 grid units and the scene       *)
(* length 1.0 is One = 50000 grid units.  The analytic solvers work on     *)
(* exact rationals <<numerator, denominator>>.                             *)
(***************************************************************************)
EXTENDS Integers, Sequences, FiniteSets, TLC

VARIABLES
    entry,                 \* which exported function is running
    pc,                    \* position inside it
    mesh,                  \* geometry: sequence of triangles <<v1, v2, v3>>
    planePoint,            \* argument planePoint
    planeNormal,           \* argument planeNormal, as planeNormal / normalUnit
    normalUnit,            \* the divisor of planeNormal's components
    tri,                   \* index of the next triangle to process
    segments,              \* raw segments collected by processTriangle
    intersections,         \* processTriangle: intersections of the last triangle
    deduplicatedSegments,  \* connectSegmentsToLoops: welded segments
    usedSegments,          \* connectSegmentsToLoops: set of used indices
    startIdx,              \* connectSegmentsToLoops: seed of the current loop
    loopPoints,            \* connectSegmentsToLoops: points of the current loop
    currentKey,            \* currentEndKey / currentStartKey of the running trace
    loops,                 \* connectSegmentsToLoops: loops pushed so far
    discarded,             \* traces that ended with fewer than 3 points (not pushed)
    solid,                 \* arguments of the analytic solvers
    points3D,              \* argument of projectSectionToView
    viewPlane,             \* argument of projectSectionToView
    line,                  \* arguments lineStart, lineEnd of lineIntersectsPlane
    scene,                 \* GlassBoxScene: its props, its state and its mounted child
    result                 \* the value returned

vars == <<entry, pc, mesh, planePoint, planeNormal, normalUnit, tri, segments,
          intersections, deduplicatedSegments, usedSegments, startIdx, loopPoints,
          currentKey, loops, discarded, solid, points3D, viewPlane, line, scene,
          result>>

meshVars == <<mesh, planePoint, planeNormal, normalUnit>>
otherArgs == <<solid, points3D, viewPlane, line, scene>>

None == "none"

-----------------------------------------------------------------------------
(* Integer helpers *)

Abs(a) == IF a < 0 THEN -a ELSE a

Sgn(a) == IF a < 0 THEN -1 ELSE IF a > 0 THEN 1 ELSE 0

RECURSIVE Gcd(_, _)
Gcd(a, b) == IF b = 0 THEN Abs(a) ELSE Gcd(b, a % Abs(b))

RECURSIVE SumSeq(_)
SumSeq(s) == IF s = <<>> THEN 0 ELSE Head(s) + SumSeq(Tail(s))

RECURSIVE Flatten(_)
Flatten(ss) == IF ss = <<>> THEN <<>> ELSE Head(ss) \o Flatten(Tail(ss))

-----------------------------------------------------------------------------
(* THREE.Vector3 on grid points <<x, y, z>> *)

subVectors(a, b) == <<a[1] - b[1], a[2] - b[2], a[3] - b[3]>>

dot(a, b) == a[1] * b[1] + a[2] * b[2] + a[3] * b[3]

distanceToSquared(a, b) == dot(subVectors(a, b), subVectors(a, b))

\* tolerance of connectSegmentsToLoops, 1e-4, in grid units
Tol == 5

\* a.distanceTo(b) < tolerance.  The coordinate differences are compared
\* first so that the squares stay small; the conjunction equals the
\* comparison of the Euclidean distance.
distanceLess(a, b, tolerance) ==
    /\ Abs(a[1] - b[1]) < tolerance
    /\ Abs(a[2] - b[2]) < tolerance
    /\ Abs(a[3] - b[3]) < tolerance
    /\ distanceToSquared(a, b) < tolerance * tolerance

-----------------------------------------------------------------------------
(* deduplicateSegments *)

\* findOrAddPoint registering every incoming point, matched or not
findOrAddPointAlwaysPush(uniquePoints, p, tolerance) ==
    LET hits == {i \in 1..Len(uniquePoints) : distanceLess(uniquePoints[i], p, tolerance)}
    IN  IF hits # {}
        THEN [up |-> uniquePoints[CHOOSE i \in hits : \A j \in hits : i <= j],
              uniquePoints |-> Append(uniquePoints, p)]
        ELSE [up |-> p, uniquePoints |-> Append(uniquePoints, p)]

\* findOrAddPoint returning the last registered point within tolerance
findOrAddPointLastMatch(uniquePoints, p, tolerance) ==
    LET hits == {i \in 1..Len(uniquePoints) : distanceLess(uniquePoints[i], p, tolerance)}
    IN  IF hits # {}
        THEN [up |-> uniquePoints[CHOOSE i \in hits : \A j \in hits : j <= i],
              uniquePoints |-> uniquePoints]
        ELSE [up |-> p, uniquePoints |-> Append(uniquePoints, p)]

\* the first registered point within tolerance of p, else p itself, which
\* is then registered
findOrAddPoint(uniquePoints, p, tolerance) ==
    LET hits == {i \in 1..Len(uniquePoints) : distanceLess(uniquePoints[i], p, tolerance)}
    IN  IF hits # {}
        THEN [up |-> uniquePoints[CHOOSE i \in hits : \A j \in hits : i <= j],
              uniquePoints |-> uniquePoints]
        ELSE [up |-> p, uniquePoints |-> Append(uniquePoints, p)]

\* lines 573-575: <<up1, up2>> of every raw segment, in order
RECURSIVE canonicalEnds(_, _, _)
canonicalEnds(segs, uniquePoints, tolerance) ==
    IF segs = <<>> THEN <<>>
    ELSE LET f1 == findOrAddPoint(uniquePoints, Head(segs)[1], tolerance)
             f2 == findOrAddPoint(f1.uniquePoints, Head(segs)[2], tolerance)
         IN  << <<f1.up, f2.up>> >> \o canonicalEnds(Tail(segs), f2.uniquePoints, tolerance)

\* the loop of deduplicateSegments without the skip of line 578
RECURSIVE dedupLoopKeepDegenerate(_, _, _, _)
dedupLoopKeepDegenerate(segs, uniquePoints, acc, tolerance) ==
    IF segs = <<>> THEN acc
    ELSE LET f1 == findOrAddPoint(uniquePoints, Head(segs)[1], tolerance)
             f2 == findOrAddPoint(f1.uniquePoints, Head(segs)[2], tolerance)
         IN  dedupLoopKeepDegenerate(Tail(segs), f2.uniquePoints,
                                     Append(acc, <<f1.up, f2.up>>), tolerance)

RECURSIVE dedupLoop(_, _, _, _)
dedupLoop(segs, uniquePoints, acc, tolerance) ==
    IF segs = <<>> THEN acc
    ELSE LET f1 == findOrAddPoint(uniquePoints, Head(segs)[1], tolerance)
             f2 == findOrAddPoint(f1.uniquePoints, Head(segs)[2], tolerance)
         IN  dedupLoop(Tail(segs), f2.uniquePoints,
                       IF f1.up = f2.up THEN acc ELSE Append(acc, <<f1.up, f2.up>>),
                       tolerance)

deduplicateSegments(segs, tolerance) == dedupLoop(segs, <<>>, <<>>, tolerance)

-----------------------------------------------------------------------------
(* connectSegmentsToLoops *)

\* Math.round(c / tolerance): the nearest integer, halves rounded up
roundDiv(c, tolerance) == (2 * c + tolerance) \div (2 * tolerance)

\* a key that leaves out the x coordinate
pointKeyWithoutX(p) == <<roundDiv(p[2], Tol), roundDiv(p[3], Tol)>>

pointKey(p) == <<roundDiv(p[1], Tol), roundDiv(p[2], Tol), roundDiv(p[3], Tol)>>

\* pointToSegments.get(key) || []: the indices pushed under key, in push order
RECURSIVE bucketFrom(_, _, _)
bucketFrom(dsegs, idx, key) ==
    IF idx > Len(dsegs) THEN <<>>
    ELSE (IF pointKey(dsegs[idx][1]) = key THEN <<idx>> ELSE <<>>)
         \o (IF pointKey(dsegs[idx][2]) = key THEN <<idx>> ELSE <<>>)
         \o bucketFrom(dsegs, idx + 1, key)

pointToSegments(dsegs, key) == bucketFrom(dsegs, 1, key)

\* the last unused segment of the bucket
lastUnused(connectedSegs, used) ==
    LET cand == {k \in 1..Len(connectedSegs) : connectedSegs[k] \notin used}
    IN  IF cand = {} THEN 0
        ELSE connectedSegs[CHOOSE k \in cand : \A j \in cand : j <= k]

\* the first segment of the list, used or not
seedFirstSegment(dsegs, used) == 1

\* lines 337-342: the first segment that is not marked used
seedIndex(dsegs, used) ==
    LET free == {i \in 1..Len(dsegs) : i \notin used}
    IN  CHOOSE i \in free : \A j \in free : i <= j

\* the segment the inner for-loop stops at: the first unused one of the bucket
firstUnused(connectedSegs, used) ==
    LET cand == {k \in 1..Len(connectedSegs) : connectedSegs[k] \notin used}
    IN  IF cand = {} THEN 0
        ELSE connectedSegs[CHOOSE k \in cand : \A j \in cand : k <= j]

\* the far end of segment seg seen from key: [point, key]
farEnd(seg, key) ==
    IF pointKey(seg[1]) = key
    THEN [point |-> seg[2], key |-> pointKey(seg[2])]
    ELSE [point |-> seg[1], key |-> pointKey(seg[1])]

-----------------------------------------------------------------------------
(* calculateMeshSection: processTriangle *)

\* |d| < 1e-10 on the grid: the grid unit is far above 1e-10, so a grid
\* distance is below the threshold exactly when it is below 1 unit
EpsGrid == 1

\* t = da / (da - db) as a reduced fraction <<num, den>> with den > 0
lerpParam(da, db) ==
    LET g == Gcd(da, da - db)
        s == Sgn(da - db)
    IN  <<(s * da) \div g, (s * (da - db)) \div g>>

\* the interpolation with the numerator of t alone
lerpNoDivision(a, b, t) == a + (b - a) * t[1]

\* nearest grid value of a + (b - a) * t
lerp(a, b, t) == a + ((2 * (b - a) * t[1] + t[2]) \div (2 * t[2]))

lerpVectors(v1, v2, t) ==
    <<lerp(v1[1], v2[1], t), lerp(v1[2], v2[2], t), lerp(v1[3], v2[3], t)>>

\* da * db < 0, decided on the signs so that the product is never formed
crosses(da, db) == Sgn(da) * Sgn(db) < 0

\* lines 228-230: the signed distances d1, d2, d3 of the three vertices, in
\* grid units times the components of pNormal
signedDistances(v1, v2, v3, pPoint, pNormal) ==
    <<dot(subVectors(v1, pPoint), pNormal),
      dot(subVectors(v2, pPoint), pNormal),
      dot(subVectors(v3, pPoint), pNormal)>>

\* the number of grid units in 1e-10 scene units is 1 / GridPerEps
GridPerEps == 200000

\* |d| < 1e-10 for the normal pNormal / unit: the smallest integer that a
\* signed distance of at least 1e-10 reaches
epsOf(unit) == EpsGrid * ((unit + GridPerEps - 1) \div GridPerEps)

\* lines 233-257: the array intersections after the three edges
intersectionsOf(v1, v2, v3, pPoint, pNormal, eps) ==
    LET d1 == signedDistances(v1, v2, v3, pPoint, pNormal)[1]
        d2 == signedDistances(v1, v2, v3, pPoint, pNormal)[2]
        d3 == signedDistances(v1, v2, v3, pPoint, pNormal)[3]
        i1 == IF crosses(d1, d2)
              THEN <<lerpVectors(v1, v2, lerpParam(d1, d2))>>
              ELSE IF Abs(d1) < eps THEN <<v1>> ELSE <<>>
        i2 == i1 \o (IF crosses(d2, d3)
                     THEN <<lerpVectors(v2, v3, lerpParam(d2, d3))>>
                     ELSE IF Abs(d2) < eps /\ Len(i1) = 0 THEN <<v2>> ELSE <<>>)
        i3 == i2 \o (IF crosses(d3, d1)
                     THEN <<lerpVectors(v3, v1, lerpParam(d3, d1))>>
                     ELSE IF Abs(d3) < eps /\ Len(i2) < 2 THEN <<v3>> ELSE <<>>)
    IN  i3

\* the segments one triangle adds to the list: none or one
processTriangle(v1, v2, v3, pPoint, pNormal, eps) ==
    LET i3 == intersectionsOf(v1, v2, v3, pPoint, pNormal, eps)
    IN  IF Len(i3) = 2 THEN << <<i3[1], i3[2]>> >> ELSE <<>>

\* an absent ellipseParams; a present one is the one-element sequence of
\* its record
NoParams == <<>>

\* SectionResult
SectionResult(pts, ls, closed, type, params) ==
    [points3D |-> pts, loops |-> ls, isClosed |-> closed,
     curveType |-> type, ellipseParams |-> params]

loopPointsOf(ls) == [k \in 1..Len(ls) |-> ls[k].points]

\* lines 276-281: the result of a mesh without a segment
emptyResultClosed == SectionResult(<<>>, <<>>, TRUE, "polygon", NoParams)

emptyResult == SectionResult(<<>>, <<>>, FALSE, "polygon", NoParams)

\* the result with the points of the first loop alone
meshResultFirstLoopOnly(ls) ==
    SectionResult(IF ls = <<>> THEN <<>> ELSE ls[1].points, ls,
                  Len(ls) > 0 /\ \A k \in 1..Len(ls) : ls[k].isClosed,
                  "polygon", NoParams)

\* lines 287-295: the result built from the assembled loops
meshResult(ls) ==
    SectionResult(Flatten(loopPointsOf(ls)), ls,
                  Len(ls) > 0 /\ \A k \in 1..Len(ls) : ls[k].isClosed,
                  "polygon", NoParams)

-----------------------------------------------------------------------------
(* Inputs of calculateMeshSection *)

\* the scene length 1.0 in grid units
One == 10000 * Tol

\* longest raw segment list handed over without a mesh
MaxSegs == 3

\* Points of a cut in the plane y = 0.  pA2 lies within the tolerance of
\* pA and of pA3, which are farther apart than the tolerance; pP and pQ are farther apart than the tolerance, yet every
\* coordinate of both rounds to the same multiple of the tolerance.
pA  == <<20, 0, 0>>
pA2 == <<23, 0, 0>>
pA3 == <<26, 0, 0>>
pB  == <<0, 0, 20>>
pP  == <<-2, 0, -2>>
pQ  == <<2, 0, 2>>

SegPool ==
    {s \in {pA, pB, pP, pQ} \X {pA, pB, pP, pQ} : s[1] # s[2]}
    \cup {<<pB, pA2>>, <<pA2, pA>>, <<pA2, pA3>>, <<pA3, pB>>}

SegLists == UNION {[1..n -> SegPool] : n \in 1..MaxSegs}

\* corner of a box face: coordinate u is su, coordinate v is sv, coordinate w is sw
corner(c, u, v, w, su, sv, sw) ==
    LET f(k) == c[k] + (IF k = u THEN su ELSE IF k = v THEN sv ELSE sw)
    IN  <<f(1), f(2), f(3)>>

\* one face of THREE.BoxGeometry: vertices a, b, c, d and the triangles
\* (a, b, d), (b, c, d)
boxFace(c, h, u, v, w, udir, vdir, wdir) ==
    LET a  == corner(c, u, v, w, -h * udir, -h * vdir, h * wdir)
        b  == corner(c, u, v, w, -h * udir,  h * vdir, h * wdir)
        cc == corner(c, u, v, w,  h * udir,  h * vdir, h * wdir)
        d  == corner(c, u, v, w,  h * udir, -h * vdir, h * wdir)
    IN  << <<a, b, d>>, <<b, cc, d>> >>

\* the box of half-size h centred at c, faces in the order px nx py ny pz nz
BoxMesh(c, h) ==
    boxFace(c, h, 3, 2, 1, -1, -1, 1) \o boxFace(c, h, 3, 2, 1, 1, -1, -1)
    \o boxFace(c, h, 1, 3, 2, 1, 1, 1) \o boxFace(c, h, 1, 3, 2, 1, -1, -1)
    \o boxFace(c, h, 1, 2, 3, 1, -1, 1) \o boxFace(c, h, 1, 2, 3, -1, -1, -1)

UnitBox == BoxMesh(<<0, 0, 0>>, One)

TwoBoxes == BoxMesh(<<-2 * One, 0, 0>>, One) \o BoxMesh(<<2 * One, 0, 0>>, One)

\* a triangle with its vertices rotated left r times
rotate(t, r) == IF r = 0 THEN t ELSE IF r = 1 THEN <<t[2], t[3], t[1]>>
                ELSE <<t[3], t[1], t[2]>>

\* The tetrahedron with apex (0, One, 0) whose three side edges cross the
\* plane y = 0 in x1, x2, x3; rots rotates the vertices of each side face.
Tetra(x1, x2, x3, rots) ==
    LET apex == <<0, One, 0>>
        base(x) == <<2 * x[1], -One, 2 * x[3]>>
    IN  << rotate(<<apex, base(x1), base(x2)>>, rots[1]),
           rotate(<<apex, base(x2), base(x3)>>, rots[2]),
           rotate(<<apex, base(x3), base(x1)>>, rots[3]),
           <<base(x1), base(x3), base(x2)>> >>

Origin == <<0, 0, 0>>

\* a single triangle beside the unit box, crossed by the plane y = 0
StrayTriangle ==
    << << <<3 * One, One, 0>>, <<3 * One, -One, 0>>, <<4 * One, -One, 0>> >> >>

\* The tetrahedron N, T, B1, B2: N lies 8e-4 above the plane y = 0, T one
\* unit above it, B1 and B2 one unit below it; rots rotates the vertices of
\* the three faces at N.
NearTetra(rots) ==
    LET N  == <<0, 40, 0>>
        T  == <<One, One, 0>>
        B1 == <<0, -One, One>>
        B2 == <<0, -One, -One>>
    IN  << rotate(<<N, T, B1>>, rots[1]),
           rotate(<<N, B2, T>>, rots[2]),
           rotate(<<N, B1, B2>>, rots[3]),
           <<T, B2, B1>> >>

\* a normal of length 1e-7, planeNormal / SmallNormal: a signed distance
\* is below 1e-10 when the point is nearer than 50 grid units (1e-3)
SmallNormal == 50 * GridPerEps

\* a single triangle lying in the plane y = 0
FlatTriangle == << << Origin, <<One, 0, 0>>, <<0, 0, One>> >> >>

MeshInputs ==
    {[mesh |-> UnitBox, planePoint |-> pp, planeNormal |-> pn, normalUnit |-> 1] :
        pp \in {Origin, <<0, One \div 2, 0>>, <<0, One, 0>>, <<0, 2 * One, 0>>},
        pn \in {<<0, 1, 0>>, <<0, 2, 0>>, <<1, 0, 0>>, <<0, 0, -1>>, <<1, 1, 0>>}}
    \cup {[mesh |-> TwoBoxes, planePoint |-> pp, planeNormal |-> pn, normalUnit |-> 1] :
        pp \in {Origin, <<0, One \div 2, 0>>}, pn \in {<<0, 1, 0>>, <<1, 0, 0>>}}
    \cup {[mesh |-> Tetra(x1, x2, x3, rots), planePoint |-> Origin,
           planeNormal |-> <<0, 1, 0>>, normalUnit |-> 1] :
        x1 \in {pA, pQ}, x2 \in {pB, pA}, x3 \in {pP, pA2},
        rots \in [1..3 -> {0, 1}]}
    \cup {[mesh |-> m, planePoint |-> Origin, planeNormal |-> <<0, 1, 0>>,
           normalUnit |-> 1] :
        m \in {<<>>, StrayTriangle, UnitBox \o StrayTriangle}}
    \cup {[mesh |-> NearTetra(rots), planePoint |-> Origin,
           planeNormal |-> <<0, 1, 0>>, normalUnit |-> u] :
        rots \in [1..3 -> {0, 1}], u \in {1, SmallNormal}}
    \cup {[mesh |-> FlatTriangle, planePoint |-> Origin, planeNormal |-> pn,
           normalUnit |-> 1] : pn \in {<<0, 1, 0>>, <<0, -3, 0>>}}

-----------------------------------------------------------------------------
(* calculateMeshSection and connectSegmentsToLoops, step by step *)

InitMesh ==
    /\ entry = "mesh"
    /\ pc = "triangles"
    /\ \E in \in MeshInputs :
          /\ mesh = in.mesh
          /\ planePoint = in.planePoint
          /\ planeNormal = in.planeNormal
          /\ normalUnit = in.normalUnit
    /\ tri = 1
    /\ segments = <<>>
    /\ intersections = <<>>
    /\ line = None
    /\ scene = None
    /\ deduplicatedSegments = <<>>
    /\ usedSegments = {}
    /\ startIdx = 0
    /\ loopPoints = <<>>
    /\ currentKey = None
    /\ loops = <<>>
    /\ discarded = <<>>
    /\ solid = None
    /\ points3D = <<>>
    /\ viewPlane = None
    /\ result = None

\* calculateMeshSection after its triangle loop (line 275), for a mesh
\* whose triangles produced the raw segments of the list
InitSegments ==
    /\ entry = "segments"
    /\ pc = "triangles"
    /\ mesh = <<>>
    /\ planePoint = Origin
    /\ planeNormal = <<0, 1, 0>>
    /\ normalUnit = 1
    /\ tri = 1
    /\ segments \in SegLists
    /\ intersections = <<>>
    /\ line = None
    /\ scene = None
    /\ deduplicatedSegments = <<>>
    /\ usedSegments = {}
    /\ startIdx = 0
    /\ loopPoints = <<>>
    /\ currentKey = None
    /\ loops = <<>>
    /\ discarded = <<>>
    /\ solid = None
    /\ points3D = <<>>
    /\ viewPlane = None
    /\ result = None

traceVars == <<deduplicatedSegments, usedSegments, startIdx, loopPoints,
               currentKey, loops, discarded>>

\* lines 265-273: one call of processTriangle
ProcessTriangle ==
    /\ pc = "triangles"
    /\ tri <= Len(mesh)
    /\ intersections' = intersectionsOf(mesh[tri][1], mesh[tri][2], mesh[tri][3],
                                        planePoint, planeNormal, epsOf(normalUnit))
    /\ segments' = segments \o processTriangle(mesh[tri][1], mesh[tri][2], mesh[tri][3],
                                               planePoint, planeNormal, epsOf(normalUnit))
    /\ tri' = tri + 1
    /\ UNCHANGED <<entry, pc, meshVars, traceVars, otherArgs, result>>

\* lines 275-285: no segment gives the empty result, else the loops are assembled
EndTriangles ==
    /\ pc = "triangles"
    /\ tri > Len(mesh)
    /\ IF Len(segments) = 0
       THEN /\ result' = emptyResult
            /\ pc' = "done"
       ELSE /\ pc' = "connect"
            /\ UNCHANGED result
    /\ UNCHANGED <<entry, meshVars, tri, segments, intersections, traceVars, otherArgs>>

\* lines 303-331: welding, the adjacency index, the empty loop list
Deduplicate ==
    /\ pc = "connect"
    /\ deduplicatedSegments' = deduplicateSegments(segments, Tol)
    /\ usedSegments' = {}
    /\ loops' = <<>>
    /\ pc' = IF Len(segments) = 0 \/ Len(deduplicatedSegments') = 0
             THEN "assembled" ELSE "seed"
    /\ UNCHANGED <<entry, meshVars, tri, segments, intersections, startIdx, loopPoints,
                   currentKey, discarded, otherArgs, result>>

\* lines 334-355: the first unused segment seeds a loop
SeedLoop ==
    /\ pc = "seed"
    /\ Cardinality(usedSegments) < Len(deduplicatedSegments)
    /\ LET first == seedIndex(deduplicatedSegments, usedSegments)
           startSeg == deduplicatedSegments[first]
       IN  /\ startIdx' = first
           /\ loopPoints' = <<startSeg[1], startSeg[2]>>
           /\ usedSegments' = usedSegments \cup {first}
           /\ currentKey' = pointKey(startSeg[2])
    /\ pc' = "forward"
    /\ UNCHANGED <<entry, meshVars, tri, segments, intersections, deduplicatedSegments, loops,
                   discarded, otherArgs, result>>

\* lines 357-386: one pass of the first while (found) loop
TraceForward ==
    /\ pc = "forward"
    /\ LET segIdx == firstUnused(pointToSegments(deduplicatedSegments, currentKey),
                                 usedSegments)
       IN  IF segIdx # 0
           THEN LET far == farEnd(deduplicatedSegments[segIdx], currentKey)
                IN  /\ loopPoints' = Append(loopPoints, far.point)
                    /\ currentKey' = far.key
                    /\ usedSegments' = usedSegments \cup {segIdx}
                    /\ pc' = "forward"
           ELSE /\ currentKey' = pointKey(deduplicatedSegments[startIdx][1])
                /\ pc' = "backward"
                /\ UNCHANGED <<loopPoints, usedSegments>>
    /\ UNCHANGED <<entry, meshVars, tri, segments, intersections, deduplicatedSegments, startIdx,
                   loops, discarded, otherArgs, result>>

\* lines 388-413: one pass of the second while (found) loop
TraceBackward ==
    /\ pc = "backward"
    /\ LET segIdx == firstUnused(pointToSegments(deduplicatedSegments, currentKey),
                                 usedSegments)
       IN  IF segIdx # 0
           THEN LET far == farEnd(deduplicatedSegments[segIdx], currentKey)
                IN  /\ loopPoints' = <<far.point>> \o loopPoints
                    /\ currentKey' = far.key
                    /\ usedSegments' = usedSegments \cup {segIdx}
                    /\ pc' = "backward"
           ELSE /\ pc' = "close"
                /\ UNCHANGED <<loopPoints, usedSegments, currentKey>>
    /\ UNCHANGED <<entry, meshVars, tri, segments, intersections, deduplicatedSegments, startIdx,
                   loops, discarded, otherArgs, result>>

\* the closure test without the removal of the closing point
closeLoopKeepClosingPoint(pts) ==
    [points |-> pts,
     isClosed |-> Len(pts) > 2 /\ distanceLess(pts[1], pts[Len(pts)], Tol)]

\* lines 415-422: the closure test and the removal of the closing point
closeLoop(pts) ==
    LET isClosed == Len(pts) > 2 /\ distanceLess(pts[1], pts[Len(pts)], Tol)
    IN  [points |-> IF isClosed THEN SubSeq(pts, 1, Len(pts) - 1) ELSE pts,
         isClosed |-> isClosed]

\* a loop kept from 2 points on
keepLoopFromTwo(loop) == Len(loop.points) >= 2

\* lines 424-430: a loop is kept when it has at least 3 points
keepLoop(loop) == Len(loop.points) >= 3

\* lines 415-431 and the test of the outer while
CloseLoop ==
    /\ pc = "close"
    /\ LET loop == closeLoop(loopPoints)
       IN  IF keepLoop(loop)
           THEN loops' = Append(loops, loop) /\ UNCHANGED discarded
           ELSE discarded' = Append(discarded, loop) /\ UNCHANGED loops
    /\ loopPoints' = <<>>
    /\ pc' = IF Cardinality(usedSegments) < Len(deduplicatedSegments)
             THEN "seed" ELSE "assembled"
    /\ UNCHANGED <<entry, meshVars, tri, segments, intersections, deduplicatedSegments,
                   usedSegments, startIdx, currentKey, otherArgs, result>>

\* lines 287-295
ReturnMeshSection ==
    /\ pc = "assembled"
    /\ result' = meshResult(loops)
    /\ pc' = "done"
    /\ UNCHANGED <<entry, meshVars, tri, segments, intersections, traceVars, otherArgs>>

-----------------------------------------------------------------------------
(* calculateMeshSection as a function of its arguments *)

\* lines 357-386 and 388-413: a while (found) loop run to its end
RECURSIVE trace(_, _, _, _, _)
trace(dsegs, used, pts, key, forward) ==
    LET segIdx == firstUnused(pointToSegments(dsegs, key), used)
    IN  IF segIdx = 0 THEN [points |-> pts, used |-> used]
        ELSE LET far == farEnd(dsegs[segIdx], key)
             IN  trace(dsegs, used \cup {segIdx},
                       IF forward THEN Append(pts, far.point) ELSE <<far.point>> \o pts,
                       far.key, forward)

\* lines 334-431: the outer while loop
RECURSIVE assemble(_, _, _)
assemble(dsegs, used, ls) ==
    IF Cardinality(used) >= Len(dsegs) THEN ls
    ELSE LET first == seedIndex(dsegs, used)
             fwd == trace(dsegs, used \cup {first}, <<dsegs[first][1], dsegs[first][2]>>,
                          pointKey(dsegs[first][2]), TRUE)
             bwd == trace(dsegs, fwd.used, fwd.points, pointKey(dsegs[first][1]), FALSE)
             loop == closeLoop(bwd.points)
         IN  assemble(dsegs, bwd.used, IF keepLoop(loop) THEN Append(ls, loop) ELSE ls)

\* lines 302-434
connectSegmentsToLoops(segs) ==
    LET dsegs == deduplicateSegments(segs, Tol)
    IN  IF Len(segs) = 0 \/ Len(dsegs) = 0 THEN <<>> ELSE assemble(dsegs, {}, <<>>)

\* lines 265-273: the segments of all triangles
RECURSIVE collectSegments(_, _, _, _)
collectSegments(m, pPoint, pNormal, eps) ==
    IF m = <<>> THEN <<>>
    ELSE processTriangle(Head(m)[1], Head(m)[2], Head(m)[3], pPoint, pNormal, eps)
         \o collectSegments(Tail(m), pPoint, pNormal, eps)

\* lines 210-296, for the normal pNormal / unit
calculateMeshSection(m, pPoint, pNormal, unit) ==
    LET segs == collectSegments(m, pPoint, pNormal, epsOf(unit))
    IN  IF Len(segs) = 0 THEN emptyResult ELSE meshResult(connectSegmentsToLoops(segs))

-----------------------------------------------------------------------------
(* Exact rationals <<numerator, denominator>>, denominator > 0, reduced *)

Rat(n, d) == LET g == Gcd(n, d) IN <<(Sgn(d) * n) \div g, Abs(d) \div g>>

RInt(n) == <<n, 1>>

RNeg(a) == <<-a[1], a[2]>>

RAbs(a) == <<Abs(a[1]), a[2]>>

RAdd(a, b) ==
    LET g == Gcd(a[2], b[2])
    IN  Rat(a[1] * (b[2] \div g) + b[1] * (a[2] \div g), (a[2] \div g) * b[2])

RSub(a, b) == RAdd(a, RNeg(b))

RMul(a, b) ==
    LET x == Rat(a[1], b[2])
        y == Rat(b[1], a[2])
    IN  <<x[1] * y[1], x[2] * y[2]>>

\* a / b for b # 0
RDiv(a, b) == RMul(a, Rat(b[2], b[1]))

RLess(a, b) == a[1] * b[2] < b[1] * a[2]

RECURSIVE isqrtFrom(_, _, _)
isqrtFrom(n, lo, hi) ==
    IF lo >= hi THEN lo
    ELSE LET mid == (lo + hi + 1) \div 2
         IN  IF mid <= n \div mid THEN isqrtFrom(n, mid, hi)
             ELSE isqrtFrom(n, lo, mid - 1)

\* the integer square root
Isqrt(n) == IF n = 0 THEN 0 ELSE isqrtFrom(n, 1, n)

IsSquare(a) == Isqrt(a[1]) * Isqrt(a[1]) = a[1] /\ Isqrt(a[2]) * Isqrt(a[2]) = a[2]

\* Math.sqrt, exact on the squares of rationals (the inputs are chosen so
\* that no other value is passed)
RSqrt(a) == <<Isqrt(a[1]), Isqrt(a[2])>>

\* Vector3 with rational components
toR(v) == <<RInt(v[1]), RInt(v[2]), RInt(v[3])>>

rdot(a, b) == RAdd(RAdd(RMul(a[1], b[1]), RMul(a[2], b[2])), RMul(a[3], b[3]))

radd(a, b) == <<RAdd(a[1], b[1]), RAdd(a[2], b[2]), RAdd(a[3], b[3])>>

rsub(a, b) == <<RSub(a[1], b[1]), RSub(a[2], b[2]), RSub(a[3], b[3])>>

multiplyScalar(a, k) == <<RMul(a[1], k), RMul(a[2], k), RMul(a[3], k)>>

crossVectors(a, b) ==
    <<RSub(RMul(a[2], b[3]), RMul(a[3], b[2])),
      RSub(RMul(a[3], b[1]), RMul(a[1], b[3])),
      RSub(RMul(a[1], b[2]), RMul(a[2], b[1]))>>

rlength(a) == RSqrt(rdot(a, a))

\* Vector3.normalize: divideScalar(length() || 1)
normalize(a) ==
    LET l == rlength(a)
    IN  IF l[1] = 0 THEN a ELSE multiplyScalar(a, Rat(l[2], l[1]))

-----------------------------------------------------------------------------
(* calculateCylinderSection *)

\* const segments = 64
CircleSegments == 64

\* Math.cos(i / 64 * 2 * Math.PI) in thousandths, i = 0..63
CosTable ==
    <<
        1000,   995,   981,   957,   924,   882,   831,   773,
         707,   634,   556,   471,   383,   290,   195,    98,
           0,   -98,  -195,  -290,  -383,  -471,  -556,  -634,
        -707,  -773,  -831,  -882,  -924,  -957,  -981,  -995,
       -1000,  -995,  -981,  -957,  -924,  -882,  -831,  -773,
        -707,  -634,  -556,  -471,  -383,  -290,  -195,   -98,
           0,    98,   195,   290,   383,   471,   556,   634,
         707,   773,   831,   882,   924,   957,   981,   995 >>

cosOf(i) == Rat(CosTable[i + 1], 1000)

\* Math.sin(x) = Math.cos(x - PI / 2)
sinOf(i) == Rat(CosTable[((i + 48) % 64) + 1], 1000)

\* point i of the curve centre + cos * ra * axisA + sin * rb * axisB
curvePoint(center, axisA, ra, axisB, rb, i) ==
    radd(radd(center, multiplyScalar(axisA, RMul(cosOf(i), ra))),
         multiplyScalar(axisB, RMul(sinOf(i), rb)))

curvePoints(center, axisA, ra, axisB, rb) ==
    [k \in 1..CircleSegments |-> curvePoint(center, axisA, ra, axisB, rb, k - 1)]

\* |axis . normal| of the normalized vectors
cosAngleOf(axis, normal) == RAbs(rdot(normalize(toR(axis)), normalize(toR(normal))))

\* line 608: cosAngle > 0.999
isPerpendicularToAxis(cosAngle) == RLess(Rat(999, 1000), cosAngle)

\* the parallel test against 0 instead of 0.001
isParallelBelowZero(cosAngle) == RLess(cosAngle, RInt(0))

\* line 643: cosAngle < 0.001
isParallelToAxis(cosAngle) == RLess(cosAngle, Rat(1, 1000))

\* the major radius multiplied by the sine instead of divided
majorRadiusTimesSine(radius, sinAngle) == RMul(radius, sinAngle)

\* line 656
majorRadiusOf(radius, sinAngle) == RDiv(radius, sinAngle)

\* lines 613-616: the centre of the circle
circleCenter(axisNormalized, pPoint, pNormal) ==
    LET t == RDiv(rdot(toR(pPoint), toR(pNormal)), rdot(axisNormalized, toR(pNormal)))
    IN  multiplyScalar(axisNormalized, RNeg(t))

\* lines 608-640
circleSection(radius, axisNormalized, pPoint, pNormal) ==
    LET center == circleCenter(axisNormalized, pPoint, pNormal)
        perpAxis1 == IF RLess(Rat(99, 100), RAbs(rdot(axisNormalized, toR(<<1, 0, 0>>))))
                     THEN toR(<<0, 0, 1>>) ELSE toR(<<1, 0, 0>>)
        uAxis == normalize(crossVectors(axisNormalized, perpAxis1))
        vAxis == normalize(crossVectors(axisNormalized, uAxis))
        points == curvePoints(center, uAxis, radius, vAxis, radius)
    IN  SectionResult(points, <<[points |-> points, isClosed |-> TRUE]>>, TRUE,
                      "circle", NoParams)

\* lines 653-690
ellipseSection(radius, axisNormalized, cosAngle, pPoint, pNormal) ==
    LET sinAngle == RSqrt(RSub(RInt(1), RMul(cosAngle, cosAngle)))
        majorRadius == majorRadiusOf(radius, sinAngle)
        minorRadius == radius
        center == toR(pPoint)
        majorAxis == normalize(crossVectors(toR(pNormal), axisNormalized))
        minorAxis == normalize(crossVectors(toR(pNormal), majorAxis))
        points == curvePoints(center, majorAxis, majorRadius, minorAxis, minorRadius)
    IN  SectionResult(points, <<[points |-> points, isClosed |-> TRUE]>>, TRUE,
                      "ellipse",
                      <<[center |-> center, majorAxis |-> majorAxis,
                         minorAxis |-> minorAxis, majorRadius |-> majorRadius,
                         minorRadius |-> minorRadius]>>)

\* lines 595-691
calculateCylinderSection(radius, axis, pPoint, pNormal) ==
    LET axisNormalized == normalize(toR(axis))
        cosAngle == cosAngleOf(axis, pNormal)
    IN  IF isPerpendicularToAxis(cosAngle)
        THEN circleSection(radius, axisNormalized, pPoint, pNormal)
        ELSE IF isParallelToAxis(cosAngle)
        THEN SectionResult(<<>>, <<>>, FALSE, "polygon", NoParams)
        ELSE ellipseSection(radius, axisNormalized, cosAngle, pPoint, pNormal)

-----------------------------------------------------------------------------
(* lineIntersectsPlane *)

\* line 54: Math.abs(denominator) < 1e-10
isParallelToPlane(denominator, eps) == Abs(denominator) < eps

\* a parallel line answered with its start point
parallelOutcomeStart(lineStart) == lineStart

\* line 55: return null
parallelOutcome(lineStart) == None

\* lines 44-70, for the normal pNormal / unit
lineIntersectsPlane(lineStart, lineEnd, pPoint, pNormal, unit) ==
    LET direction == subVectors(lineEnd, lineStart)
        denominator == dot(direction, pNormal)
    IN  IF isParallelToPlane(denominator, epsOf(unit)) THEN parallelOutcome(lineStart)
        ELSE LET t == Rat(dot(subVectors(pPoint, lineStart), pNormal), denominator)
             IN  IF RLess(t, RInt(0)) \/ RLess(RInt(1), t) THEN None
                 ELSE lerpVectors(lineStart, lineEnd, t)

-----------------------------------------------------------------------------
(* calculateConeSection *)

\* Math.acos in units of 1e-4 rad, on the cosines the inputs produce
AcosTable ==
    <<0, 1>> :> 15708
    @@ <<1, 1>> :> 0
    @@ <<3, 5>> :> 9273
    @@ <<4, 5>> :> 6435
    @@ <<1012, 1013>> :> 444
    @@ <<24, 25>> :> 2838
    @@ <<3216, 5065>> :> 8829
    @@ <<45, 1013>> :> 15264
    @@ <<12, 25>> :> 10701

\* Math.atan in units of 1e-4 rad, on the ratios radius / height of the inputs
AtanTable ==
    <<1, 1>> :> 7854
    @@ <<1, 2>> :> 4636
    @@ <<3, 4>> :> 6435
    @@ <<4, 3>> :> 9273

\* Math.PI / 2 in units of 1e-4 rad
HalfPi == 15708

\* const tolerance = 0.01 in units of 1e-4 rad
AngleTol == 100

\* lines 702-759
calculateConeSection(coneRadius, coneHeight, axis, pPoint, pNormal) ==
    LET halfAngle == AtanTable[RDiv(coneRadius, coneHeight)]
        planeAngle == AcosTable[cosAngleOf(axis, pNormal)]
    IN  IF Abs(planeAngle - HalfPi) < AngleTol
        THEN SectionResult(<<>>, <<>>, TRUE, "circle", NoParams)
        ELSE IF planeAngle > halfAngle + AngleTol
        THEN SectionResult(<<>>, <<>>, TRUE, "ellipse", NoParams)
        ELSE IF Abs(planeAngle - halfAngle) < AngleTol
        THEN SectionResult(<<>>, <<>>, FALSE, "parabola", NoParams)
        ELSE SectionResult(<<>>, <<>>, FALSE, "hyperbola", NoParams)

-----------------------------------------------------------------------------
(* projectSectionToView *)

\* longest point list handed to projectSectionToView
MaxPoints == 2

\* projectPoint with the left view not mirrored
projectPointLeftAsRight(p, view) ==
    IF view = "V" THEN <<p[1], p[2]>>
    ELSE IF view = "H" THEN <<p[1], -p[3]>>
    ELSE <<p[3], p[2]>>

\* projectPoint with the top view taken along the x axis
projectPointTopAlongX(p, view) ==
    IF view = "V" THEN <<p[1], p[2]>>
    ELSE IF view = "H" THEN <<p[3], -p[1]>>
    ELSE IF view = "W" THEN <<-p[3], p[2]>>
    ELSE IF view = "R" THEN <<p[3], p[2]>>
    ELSE <<p[1], p[2]>>

\* lines 771-790: the image of one point
projectPoint(p, view) ==
    IF view = "V" THEN <<p[1], p[2]>>
    ELSE IF view = "H" THEN <<p[1], -p[3]>>
    ELSE IF view = "W" THEN <<-p[3], p[2]>>
    ELSE IF view = "R" THEN <<p[3], p[2]>>
    ELSE <<p[1], p[2]>>

projectSectionToView(pts, view) == [k \in 1..Len(pts) |-> projectPoint(pts[k], view)]

-----------------------------------------------------------------------------
(* Inputs and calls of the analytic solvers and of the projector *)

Axes == {<<0, 1, 0>>, <<1, 0, 0>>, <<0, 3, 4>>, <<0, 0, -2>>}

Normals ==
    {<<0, 1, 0>>, <<0, -2, 0>>, <<0, 3, 4>>, <<0, 4, 3>>, <<0, 1012, 45>>,
     <<1, 0, 0>>, <<0, 0, 1>>, <<3, 4, 0>>, <<0, -4, 3>>, <<4, 0, 3>>, <<0, 0, 0>>}

PlanePoints == {Origin, <<0, 1, 0>>, <<1, 2, -1>>, <<0, -3, 0>>}

\* the sine of the angle between the two directions is rational
ExactAngle(axis, normal) ==
    LET c == cosAngleOf(axis, normal) IN IsSquare(RSub(RInt(1), RMul(c, c)))

Directions == {an \in Axes \X Normals : ExactAngle(an[1], an[2])}

ViewPoints == {<<1, 2, 3>>, <<-1, 0, 2>>, <<0, -3, -2>>}

idleMesh ==
    /\ mesh = <<>>
    /\ normalUnit = 1
    /\ tri = 1
    /\ segments = <<>>
    /\ intersections = <<>>
    /\ deduplicatedSegments = <<>>
    /\ usedSegments = {}
    /\ startIdx = 0
    /\ loopPoints = <<>>
    /\ currentKey = None
    /\ loops = <<>>
    /\ discarded = <<>>

InitCylinder ==
    /\ entry = "cylinder"
    /\ pc = "call"
    /\ \E an \in Directions, r \in {RInt(1), RInt(2), Rat(1, 2)} :
          /\ solid = [radius |-> r, height |-> RInt(2), axis |-> an[1]]
          /\ planeNormal = an[2]
    /\ planePoint \in PlanePoints
    /\ idleMesh
    /\ points3D = <<>>
    /\ viewPlane = None
    /\ line = None
    /\ scene = None
    /\ result = None

InitCone ==
    /\ entry = "cone"
    /\ pc = "call"
    /\ \E an \in Directions, rh \in {<<1, 1>>, <<1, 2>>, <<3, 4>>, <<4, 3>>} :
          /\ solid = [radius |-> RInt(rh[1]), height |-> RInt(rh[2]), axis |-> an[1]]
          /\ planeNormal = an[2]
    /\ planePoint \in {Origin, <<0, 1, 0>>}
    /\ idleMesh
    /\ points3D = <<>>
    /\ viewPlane = None
    /\ line = None
    /\ scene = None
    /\ result = None

InitProject ==
    /\ entry = "project"
    /\ pc = "call"
    /\ points3D \in UNION {[1..n -> ViewPoints] : n \in 0..MaxPoints}
    /\ viewPlane \in {"V", "H", "W", "R"}
    /\ planePoint = Origin
    /\ planeNormal = <<0, 1, 0>>
    /\ idleMesh
    /\ solid = None
    /\ line = None
    /\ scene = None
    /\ result = None

\* end points of the lines handed to lineIntersectsPlane
LinePoints ==
    {<<0, One, 0>>, <<0, -One, 0>>, <<One, 0, 0>>, <<One, 3 * One, One>>,
     <<0, 0, One>>, <<0, 40, 0>>, <<One, 20, 0>>}

InitLine ==
    /\ entry = "line"
    /\ pc = "call"
    /\ line \in {l \in LinePoints \X LinePoints : l[1] # l[2]}
    /\ scene = None
    /\ planePoint \in {Origin, <<0, One \div 2, 0>>}
    /\ planeNormal \in {<<0, 1, 0>>, <<0, -2, 0>>, <<1, 1, 0>>}
    /\ mesh = <<>>
    /\ normalUnit \in {1, SmallNormal}
    /\ tri = 1
    /\ segments = <<>>
    /\ intersections = <<>>
    /\ deduplicatedSegments = <<>>
    /\ usedSegments = {}
    /\ startIdx = 0
    /\ loopPoints = <<>>
    /\ currentKey = None
    /\ loops = <<>>
    /\ discarded = <<>>
    /\ solid = None
    /\ points3D = <<>>
    /\ viewPlane = None
    /\ result = None

callFrame == <<entry, meshVars, tri, segments, intersections, traceVars, otherArgs>>

CalculateCylinderSection ==
    /\ entry = "cylinder"
    /\ pc = "call"
    /\ result' = calculateCylinderSection(solid.radius, solid.axis, planePoint, planeNormal)
    /\ pc' = "done"
    /\ UNCHANGED callFrame

CalculateConeSection ==
    /\ entry = "cone"
    /\ pc = "call"
    /\ result' = calculateConeSection(solid.radius, solid.height, solid.axis,
                                      planePoint, planeNormal)
    /\ pc' = "done"
    /\ UNCHANGED callFrame

ProjectSectionToView ==
    /\ entry = "project"
    /\ pc = "call"
    /\ result' = projectSectionToView(points3D, viewPlane)
    /\ pc' = "done"
    /\ UNCHANGED callFrame

LineIntersectsPlane ==
    /\ entry = "line"
    /\ pc = "call"
    /\ result' = lineIntersectsPlane(line[1], line[2], planePoint, planeNormal, normalUnit)
    /\ pc' = "done"
    /\ UNCHANGED callFrame

-----------------------------------------------------------------------------
(* GlassBoxScene and its child SectionPlane *)

\* the geometries the scene can show
SceneGeometries == {"box", "tetra"}

sceneMesh(g) == IF g = "box" THEN UnitBox ELSE Tetra(pA, pB, pP, <<0, 0, 0>>)

\* plane positions and rotations the controls can set
ScenePositions == {Origin, <<0, One \div 2, 0>>}

SceneRotations == {"none", "aboutX"}

\* planeParams: the normal (0, 0, 1) turned by the Euler rotation, which is
\* none or a quarter turn about the x axis
planeParams(position, rotation) ==
    [position |-> position,
     normal |-> IF rotation = "none" THEN <<0, 0, 1>> ELSE <<0, -1, 0>>]

\* the effect of SectionPlane: the section of the props it was rendered with
sectionEffect(sc) ==
    IF ~sc.showSectionPlane THEN <<>>
    ELSE <<calculateMeshSection(sceneMesh(sc.geometry),
                                planeParams(sc.planePosition, sc.planeRotation).position,
                                planeParams(sc.planePosition, sc.planeRotation).normal, 1)>>

\* SectionPlane is rendered inside the object group
sectionPlaneMounted(sc) == sc.showObject /\ sc.showSectionPlane

\* the effect runs after the render that mounts SectionPlane and after a
\* render that changes one of its dependencies
effectPending(old, new) ==
    /\ sectionPlaneMounted(new)
    /\ \/ ~old.mounted
       \/ old.geometry # new.geometry
       \/ old.planePosition # new.planePosition
       \/ old.planeRotation # new.planeRotation

\* a render with new props: the state sectionResult is kept
render(new) ==
    /\ scene' = [new EXCEPT !.mounted = sectionPlaneMounted(new)]
    /\ pc' = IF effectPending(scene, new) THEN "effects" ELSE "idle"

InitScene ==
    /\ entry = "scene"
    /\ \E so \in BOOLEAN, sp \in BOOLEAN, g \in SceneGeometries,
          pos \in ScenePositions, rot \in SceneRotations :
          /\ scene = [showObject |-> so, showSectionPlane |-> sp, geometry |-> g,
                      planePosition |-> pos, planeRotation |-> rot,
                      sectionResult |-> <<>>, mounted |-> so /\ sp]
          /\ pc = IF so /\ sp THEN "effects" ELSE "idle"
    /\ planePoint = Origin
    /\ planeNormal = <<0, 1, 0>>
    /\ idleMesh
    /\ solid = None
    /\ points3D = <<>>
    /\ viewPlane = None
    /\ line = None
    /\ result = None

sceneFrame ==
    <<entry, meshVars, tri, segments, intersections, traceVars, solid, points3D,
      viewPlane, line, result>>

ToggleSectionPlane ==
    /\ entry = "scene" /\ pc = "idle"
    /\ render([scene EXCEPT !.showSectionPlane = ~scene.showSectionPlane])
    /\ UNCHANGED sceneFrame

ToggleObject ==
    /\ entry = "scene" /\ pc = "idle"
    /\ render([scene EXCEPT !.showObject = ~scene.showObject])
    /\ UNCHANGED sceneFrame

ChangeGeometry ==
    /\ entry = "scene" /\ pc = "idle"
    /\ \E g \in SceneGeometries \ {scene.geometry} :
          render([scene EXCEPT !.geometry = g])
    /\ UNCHANGED sceneFrame

ChangeSectionPlane ==
    /\ entry = "scene" /\ pc = "idle"
    /\ \E pos \in ScenePositions, rot \in SceneRotations :
          /\ <<pos, rot>> # <<scene.planePosition, scene.planeRotation>>
          /\ render([scene EXCEPT !.planePosition = pos, !.planeRotation = rot])
    /\ UNCHANGED sceneFrame

\* the effect of SectionPlane and handleSectionChange
RunEffects ==
    /\ entry = "scene" /\ pc = "effects"
    /\ scene' = [scene EXCEPT !.sectionResult = sectionEffect(scene)]
    /\ pc' = "idle"
    /\ UNCHANGED sceneFrame

-----------------------------------------------------------------------------
Init ==
    InitMesh \/ InitSegments \/ InitCylinder \/ InitCone \/ InitProject \/ InitLine
    \/ InitScene

Next ==
    \/ ProcessTriangle
    \/ EndTriangles
    \/ Deduplicate
    \/ SeedLoop
    \/ TraceForward
    \/ TraceBackward
    \/ CloseLoop
    \/ ReturnMeshSection
    \/ CalculateCylinderSection
    \/ CalculateConeSection
    \/ ProjectSectionToView
    \/ LineIntersectsPlane
    \/ ToggleSectionPlane
    \/ ToggleObject
    \/ ChangeGeometry
    \/ ChangeSectionPlane
    \/ RunEffects

Spec == Init /\ [][Next]_vars

-----------------------------------------------------------------------------
(* Properties of the mesh section *)

Returned == pc = "done" /\ entry \in {"mesh", "segments"}

\* the segments a loop stands for: one per stored point of a closed loop,
\* one less for an open loop
segmentsOf(loop) == IF loop.isClosed THEN Len(loop.points) ELSE Len(loop.points) - 1

segmentsIn(ls) == SumSeq([k \in 1..Len(ls) |-> segmentsOf(ls[k])])

\* C1 as stated: the loops returned by connectSegmentsToLoops stand for
\* exactly as many segments as deduplicateSegments delivered.
C1_SegmentConservation ==
    Returned => segmentsIn(result.loops) = Len(deduplicatedSegments)

\* C1, amended: the segments of the returned loops together with the
\* segments of the traces dropped for having fewer than 3 points are the
\* deduplicated segments, each counted once; while a loop is traced it
\* holds one point more than the segments it has consumed.
C1_ConservationWithDropped ==
    /\ pc \in {"assembled", "done"} =>
          /\ segmentsIn(loops) + segmentsIn(discarded) = Len(deduplicatedSegments)
          /\ Cardinality(usedSegments) = Len(deduplicatedSegments)
    /\ pc \in {"forward", "backward", "close"} =>
          segmentsIn(loops) + segmentsIn(discarded) + Len(loopPoints) - 1
              = Cardinality(usedSegments)

C1_Witness ==
    /\ Returned
    /\ Len(result.loops) >= 1
    /\ Len(discarded) >= 1
    /\ \E k \in 1..Len(result.loops) : result.loops[k].isClosed

IsSectionResult == pc = "done" /\ entry \in {"mesh", "segments", "cylinder", "cone"}

\* C2: every loop of a returned SectionResult has at least 3 points; a
\* trace that ends with fewer is dropped and the call still returns.
C2_LoopPointMinimum ==
    IsSectionResult =>
        \A k \in 1..Len(result.loops) : Len(result.loops[k].points) >= 3

C2_Witness ==
    /\ Returned
    /\ Len(discarded) >= 1
    /\ Len(result.loops) >= 1

\* every edge of the mesh belongs to exactly two triangles
Watertight(m) ==
    /\ Len(m) > 0
    /\ \A i \in 1..Len(m) : \A e \in {<<1, 2>>, <<2, 3>>, <<3, 1>>} :
          Cardinality({j \in 1..Len(m) :
              {m[i][e[1]], m[i][e[2]]} \subseteq {m[j][1], m[j][2], m[j][3]}}) = 2

\* the plane passes through no vertex of the mesh
GenericPlane ==
    \A i \in 1..Len(mesh) : \A k \in 1..3 :
        dot(subVectors(mesh[i][k], planePoint), planeNormal) # 0

endpoints(segs) == {segs[i][e] : i \in 1..Len(segs), e \in 1..2}

\* every welded vertex is the endpoint of exactly two deduplicated segments
DegreeTwo ==
    \A p \in endpoints(deduplicatedSegments) :
        Cardinality({ie \in (1..Len(deduplicatedSegments)) \X (1..2) :
            deduplicatedSegments[ie[1]][ie[2]] = p}) = 2

\* no two different crossing points lie within the tolerance of each other
WellSeparated ==
    \A p, q \in endpoints(segments) : p = q \/ ~distanceLess(p, q, Tol)

\* C3 as stated: a closed watertight mesh cut by a generic plane (no
\* vertex on the plane, crossing points farther apart than the tolerance,
\* every welded vertex on exactly two segments) gives closed loops only,
\* and the overall isClosed is true.
C3_WatertightCutClosed ==
    (/\ pc = "done" /\ entry = "mesh"
     /\ Watertight(mesh) /\ GenericPlane
     /\ Len(segments) > 0 /\ WellSeparated /\ DegreeTwo)
    => /\ \A k \in 1..Len(result.loops) : result.loops[k].isClosed
       /\ result.isClosed

BoxCut == pc = "done" /\ entry = "mesh" /\ mesh = UnitBox
          /\ planePoint = Origin /\ planeNormal = <<0, 1, 0>>

range(sq) == {sq[k] : k \in 1..Len(sq)}

SquareCorners(cx) ==
    {<<cx + sx * One, 0, sz * One>> : sx \in {-1, 1}, sz \in {-1, 1}}

SquareMidpoints(cx) ==
    {<<cx + One, 0, 0>>, <<cx - One, 0, 0>>, <<cx, 0, One>>, <<cx, 0, -One>>}

\* C4 as stated: the box cut by the plane y = 0 gives one closed loop of
\* exactly 4 points, the corners of the square.
C4_BoxFourPoints ==
    BoxCut => /\ Len(result.loops) = 1
              /\ result.loops[1].isClosed
              /\ Len(result.loops[1].points) = 4
              /\ range(result.loops[1].points) = SquareCorners(0)

\* C4, amended: the box cut by the plane y = 0 gives one closed loop of
\* exactly 8 different points on the 2x2 square in the XZ-plane: its 4
\* corners and the 4 midpoints of its sides, where the plane crosses the
\* diagonals of the side faces.
C4_BoxEightPoints ==
    BoxCut => /\ Len(result.loops) = 1
              /\ result.loops[1].isClosed
              /\ Len(result.loops[1].points) = 8
              /\ range(result.loops[1].points) = SquareCorners(0) \cup SquareMidpoints(0)
              /\ result.isClosed

C4_Witness == BoxCut /\ Len(segments) = 8

TwoBoxCut == pc = "done" /\ entry = "mesh" /\ mesh = TwoBoxes
             /\ planeNormal = <<0, 1, 0>>

C6_WeldingIdempotent ==
    LET once == deduplicateSegments(segments, Tol)
    IN  deduplicateSegments(once, Tol) = once

\* welding moved an endpoint and removed a segment
C6_Witness ==
    /\ pc = "seed"
    /\ Len(deduplicatedSegments) < Len(segments)
    /\ \E k \in 1..Len(deduplicatedSegments) :
          deduplicatedSegments[k] \notin range(segments)

-----------------------------------------------------------------------------
(* Properties of the analytic cylinder section *)

CylinderReturned == pc = "done" /\ entry = "cylinder"

\* sine of the angle between two directions: |a x b| / (|a| |b|)
sinBetween(a, b) ==
    RDiv(rlength(crossVectors(toR(a), toR(b))), RMul(rlength(toR(a)), rlength(toR(b))))

\* cosine of the angle between two directions: |a . b| / (|a| |b|), and 0
\* for a vector without direction
cosBetween(a, b) ==
    IF a = Origin \/ b = Origin THEN RInt(0)
    ELSE RDiv(RAbs(rdot(toR(a), toR(b))), RMul(rlength(toR(a)), rlength(toR(b))))

Oblique == /\ planeNormal # Origin
           /\ RLess(RInt(0), cosBetween(solid.axis, planeNormal))
           /\ RLess(cosBetween(solid.axis, planeNormal), RInt(1))

IsEllipseOf(res, r, sine) ==
    /\ res.curveType = "ellipse"
    /\ Len(res.ellipseParams) = 1
    /\ res.ellipseParams[1].minorRadius = r
    /\ RMul(res.ellipseParams[1].majorRadius, sine) = r

\* C7 as stated: every plane whose normal makes an angle strictly between
\* 0 and 90 degrees with the axis gives an ellipse of minor radius r and
\* major radius r / sin(theta).
C7_EllipseForEveryObliquePlane ==
    (CylinderReturned /\ Oblique)
    => IsEllipseOf(result, solid.radius, sinBetween(solid.axis, planeNormal))

\* C7, amended: the ellipse with minor radius r and major radius
\* r / sin(theta) is returned when 0.001 <= |cos(theta)| <= 0.999; when
\* |cos(theta)| > 0.999 the result is tagged circle and when
\* |cos(theta)| < 0.001 it is the empty polygon result.
C7_EllipseOutsideBands ==
    CylinderReturned =>
        LET c == cosBetween(solid.axis, planeNormal)
        IN  /\ (planeNormal # Origin /\ ~RLess(c, Rat(1, 1000)) /\ ~RLess(Rat(999, 1000), c))
                   => IsEllipseOf(result, solid.radius,
                                  sinBetween(solid.axis, planeNormal))
            /\ (planeNormal # Origin /\ RLess(Rat(999, 1000), c))
                   => result.curveType = "circle"
            /\ RLess(c, Rat(1, 1000)) => result.curveType = "polygon"

C7_Witness ==
    /\ CylinderReturned
    /\ Oblique
    /\ result.curveType = "ellipse"
    /\ solid.axis = <<0, 3, 4>>
    /\ result.ellipseParams[1].majorRadius # result.ellipseParams[1].minorRadius

\* the plane is perpendicular to the axis: its normal is parallel to the axis
Perpendicular == planeNormal # Origin /\ cosBetween(solid.axis, planeNormal) = RInt(1)

onPlane(p) == rdot(rsub(p, toR(planePoint)), toR(planeNormal)) = RInt(0)

\* C8 as stated: a plane perpendicular to the axis gives the circle as
\* one closed loop of 64 points, all of them on the cutting plane,
\* wherever the plane point is.
C8_CircleOnPlane ==
    (CylinderReturned /\ Perpendicular)
    => /\ result.curveType = "circle"
       /\ Len(result.loops) = 1
       /\ result.loops[1].isClosed
       /\ Len(result.loops[1].points) = 64
       /\ \A k \in 1..Len(result.loops[1].points) : onPlane(result.loops[1].points[k])

\* C9: a plane parallel to the axis (|cos| < 0.001) gives the fallback
\* signal and no geometry.
C9_ParallelFallback ==
    (CylinderReturned /\ RLess(cosBetween(solid.axis, planeNormal), Rat(1, 1000)))
    => /\ result.loops = <<>>
       /\ result.points3D = <<>>
       /\ result.isClosed = FALSE
       /\ result.curveType = "polygon"
       /\ result.ellipseParams = NoParams

C9_Witness ==
    /\ CylinderReturned
    /\ planeNormal = <<0, -4, 3>>
    /\ solid.axis = <<0, 3, 4>>
    /\ result.curveType = "polygon"

-----------------------------------------------------------------------------
(* Properties of the view projector *)

\* C10: one 2D point per 3D point, in the same order: (x, y) for V,
\* (x, -z) for H, (-z, y) for W and (z, y) for R.
C10_ViewMaps ==
    (pc = "done" /\ entry = "project")
    => /\ Len(result) = Len(points3D)
       /\ \A k \in 1..Len(points3D) :
             LET x == points3D[k][1]
                 y == points3D[k][2]
                 z == points3D[k][3]
             IN  /\ viewPlane = "V" => result[k] = <<x, y>>
                 /\ viewPlane = "H" => result[k] = <<x, -z>>
                 /\ viewPlane = "W" => result[k] = <<-z, y>>
                 /\ viewPlane = "R" => result[k] = <<z, y>>

C10_Witness ==
    /\ pc = "done" /\ entry = "project"
    /\ viewPlane = "W"
    /\ Len(result) = 2
    /\ result[1] # result[2]

-----------------------------------------------------------------------------
(* The step-by-step run returns what the function returns *)

StepsAgreeWithFunction ==
    (entry = "mesh" /\ pc = "done")
        => result = calculateMeshSection(mesh, planePoint, planeNormal, normalUnit)

-----------------------------------------------------------------------------
(* Properties of the projections, of the intersector and of the welding *)

\* max - min of coordinate c of a non-empty list of 2D points
extent(pts, c) ==
    LET vals == {pts[k][c] : k \in 1..Len(pts)}
    IN  (CHOOSE v \in vals : \A w \in vals : w <= v)
        - (CHOOSE v \in vals : \A w \in vals : v <= w)

\* C11: for every non-empty list of 3D points the x-extent of the V
\* projection equals the x-extent of the H projection, and the y-extent of
\* the V projection equals the y-extent of the W and of the R projection;
\* the list returned for the requested view is the projection compared.
C11_ProjectionConsistency ==
    (entry = "project" /\ pc = "done" /\ Len(points3D) > 0) =>
        LET V == projectSectionToView(points3D, "V")
            H == projectSectionToView(points3D, "H")
            W == projectSectionToView(points3D, "W")
            R == projectSectionToView(points3D, "R")
        IN  /\ extent(V, 1) = extent(H, 1)
            /\ extent(V, 2) = extent(W, 2)
            /\ extent(V, 2) = extent(R, 2)
            /\ viewPlane = "H" => extent(result, 1) = extent(V, 1)
            /\ viewPlane \in {"W", "R"} => extent(result, 2) = extent(V, 2)

\* a top view of two points that differ in x, in y and in z has been returned
C11_Witness ==
    /\ entry = "project" /\ pc = "done" /\ viewPlane = "H"
    /\ Len(points3D) = 2
    /\ \A c \in 1..3 : points3D[1][c] # points3D[2][c]
    /\ extent(result, 1) > 0

\* C12: when no triangle of the mesh yields a segment, calculateMeshSection
\* returns zero loops, an empty points3D, isClosed = false and curveType
\* 'polygon'.
C12_EmptySection ==
    (entry = "mesh" /\ pc = "done" /\ Len(segments) = 0) =>
        /\ result.loops = <<>>
        /\ result.points3D = <<>>
        /\ result.isClosed = FALSE
        /\ result.curveType = "polygon"
        /\ result.ellipseParams = NoParams

\* the box lies entirely on one side of the plane and the call has returned
C12_Witness ==
    /\ entry = "mesh" /\ pc = "done"
    /\ mesh = UnitBox /\ tri = Len(mesh) + 1
    /\ \A k \in 1..Len(mesh) :
          \A c \in 1..3 : signedDistances(mesh[k][1], mesh[k][2], mesh[k][3],
                                           planePoint, planeNormal)[c] < 0
    /\ segments = <<>>
    /\ result.loops = <<>>

\* a triangle has just been processed
TriangleProcessed == entry = "mesh" /\ pc = "triangles" /\ tri > 1

\* the signed distances and the segments of the triangle just processed
lastDistances ==
    signedDistances(mesh[tri - 1][1], mesh[tri - 1][2], mesh[tri - 1][3],
                    planePoint, planeNormal)

lastSegments ==
    processTriangle(mesh[tri - 1][1], mesh[tri - 1][2], mesh[tri - 1][3],
                    planePoint, planeNormal, epsOf(normalUnit))

OneSided(d) == (\A c \in 1..3 : d[c] > 0) \/ (\A c \in 1..3 : d[c] < 0)

InPlane(d) == \A c \in 1..3 : d[c] = 0

\* C13: the intersector emits no segment for a triangle whose three
\* vertices all lie on one side of the plane, and none for a triangle lying
\* exactly in the plane (all three signed distances zero).
C13_NoSegmentOffPlaneOrInPlane ==
    (TriangleProcessed /\ (OneSided(lastDistances) \/ InPlane(lastDistances)))
        => lastSegments = <<>>

\* C14: for every triangle and plane, also with a vertex whose signed
\* distance is non-zero but below 1e-10 in magnitude, the intersector
\* collects at most 2 intersection points over the three edges, and it
\* emits a segment exactly when 2 points were collected.
C14_AtMostTwoIntersections ==
    TriangleProcessed =>
        /\ Len(intersections) <= 2
        /\ (lastSegments # <<>>) <=> (Len(intersections) = 2)

\* the factors k = 2, 3 and 1e-7 applied to the normal planeNormal / 1:
\* the scaled normal as <<planeNormal, normalUnit>>
ScaledNormals(n) ==
    {<<<<2 * n[1], 2 * n[2], 2 * n[3]>>, 1>>,
     <<<<3 * n[1], 3 * n[2], 3 * n[3]>>, 1>>,
     <<n, SmallNormal>>}

\* C15: calculateMeshSection does not depend on the length of the plane
\* normal: for every mesh, plane point, normal n and factor k > 0, the call
\* with k*n returns the same loops (same points, same order, same closed
\* flags) as the call with n.
C15_NormalLengthIrrelevant ==
    (entry = "mesh" /\ pc = "done" /\ normalUnit = 1) =>
        \A kn \in ScaledNormals(planeNormal) :
            calculateMeshSection(mesh, planePoint, kn[1], kn[2]).loops = result.loops

\* the three edges of a triangle as pairs of vertex numbers
Edges == {<<1, 2>>, <<2, 3>>, <<3, 1>>}

\* the call of lineIntersectsPlane has returned
LineReturned == entry = "line" /\ pc = "done"

lineDenominator == dot(subVectors(line[2], line[1]), planeNormal)

SectionReturned ==
    entry \in {"mesh", "segments", "cylinder", "cone"} /\ pc = "done"

\* C17: in every SectionResult returned by calculateMeshSection,
\* calculateCylinderSection and calculateConeSection, points3D is the
\* concatenation of the points of all loops in loop order, and the overall
\* isClosed is true only if every loop in loops is closed.
C17_FlattenedPointsAndClosedFlag ==
    SectionReturned =>
        /\ result.points3D = Flatten([k \in 1..Len(result.loops) |-> result.loops[k].points])
        /\ result.isClosed => \A k \in 1..Len(result.loops) : result.loops[k].isClosed

\* a mesh section of two loops has been returned
C17_Witness ==
    /\ entry = "mesh" /\ pc = "done"
    /\ Len(result.loops) = 2
    /\ result.points3D = result.loops[1].points \o result.loops[2].points
    /\ result.isClosed

\* deduplicateSegments has run on a non-empty segment list and its loops
\* are assembled: every call with a segment passes this position once
Welded ==
    /\ entry \in {"mesh", "segments"}
    /\ pc = "assembled"
    /\ Len(segments) > 0

\* the raw end points in the order findOrAddPoint receives them, and the
\* canonical point each is mapped to
rawEnds == Flatten(segments)

canonEnds == Flatten(canonicalEnds(segments, <<>>, Tol))

\* C19 as stated: two raw end points p and q of one run of
\* deduplicateSegments are mapped to the same canonical point if and only
\* if the distance between p and q is below the tolerance.
C19_WeldedIffNear ==
    Welded =>
        LET raw == rawEnds
            canon == canonEnds
        IN  \A i, j \in 1..Len(raw) :
                (canon[i] = canon[j]) <=> distanceLess(raw[i], raw[j], Tol)

\* C19 amended: every raw end point is mapped to the first registered
\* canonical point nearer than the tolerance, or registers itself when there
\* is none; canonical points are at least the tolerance apart; two raw end
\* points with the same canonical point are nearer than twice the
\* tolerance.
C19_WeldedToFirstRegistered ==
    Welded =>
        LET raw == rawEnds
            canon == canonEnds
            registers(k) == canon[k] = raw[k]
        IN  /\ \A k \in 1..Len(raw) :
                  LET near == {j \in 1..k : registers(j) /\ distanceLess(raw[j], raw[k], Tol)}
                  IN  /\ near # {} \/ registers(k)
                      /\ near # {} =>
                            canon[k] = raw[CHOOSE j \in near : \A h \in near : j <= h]
                      /\ canon[k] = raw[k] \/ distanceLess(canon[k], raw[k], Tol)
            /\ \A i, j \in 1..Len(raw) :
                  /\ canon[i] # canon[j] => ~distanceLess(canon[i], canon[j], Tol)
                  /\ canon[i] = canon[j] => distanceLess(raw[i], raw[j], 2 * Tol)

\* two raw end points nearer than the tolerance have been mapped to
\* different canonical points
C19_Witness ==
    /\ Welded
    /\ LET raw == rawEnds
           canon == canonEnds
       IN  \E i, j \in 1..Len(raw) :
               distanceLess(raw[i], raw[j], Tol) /\ canon[i] # canon[j]

\* C20: deduplicateSegments returns a list no longer than its input, in
\* input order; every segment of it has two distinct canonical end points
\* at least the tolerance apart; exactly the raw segments whose end points
\* weld to the same canonical point are removed.
C20_DegenerateSegmentsRemoved ==
    Welded =>
        LET ends == canonicalEnds(segments, <<>>, Tol)
            proper(seg) == seg[1] # seg[2]
        IN  /\ Len(deduplicatedSegments) <= Len(segments)
            /\ deduplicatedSegments = SelectSeq(ends, proper)
            /\ \A k \in 1..Len(deduplicatedSegments) :
                  /\ deduplicatedSegments[k][1] # deduplicatedSegments[k][2]
                  /\ ~distanceLess(deduplicatedSegments[k][1],
                                   deduplicatedSegments[k][2], Tol)

\* a raw segment whose end points welded together has been removed and
\* another one kept
C20_Witness ==
    /\ Welded
    /\ 0 < Len(deduplicatedSegments)
    /\ Len(deduplicatedSegments) < Len(segments)
    /\ \E k \in 1..Len(segments) :
          /\ segments[k][1] # segments[k][2]
          /\ LET ends == canonicalEnds(segments, <<>>, Tol) IN ends[k][1] = ends[k][2]

-----------------------------------------------------------------------------
(* Properties of the cone section *)

ConeReturned == entry = "cone" /\ pc = "done"

\* the angle between the cutting plane and the cone axis, in 1e-4 rad: the
\* complement of the angle between the plane normal and the axis
planeToAxisAngle == HalfPi - AcosTable[cosAngleOf(solid.axis, planeNormal)]

\* the half-angle alpha = atan(radius / height), in 1e-4 rad
coneHalfAngle == AtanTable[RDiv(solid.radius, solid.height)]

\* the tag of the conic for the angle theta and the half-angle alpha
conicTag(theta, alpha) ==
    IF Abs(theta - HalfPi) < AngleTol THEN "circle"
    ELSE IF theta > alpha + AngleTol THEN "ellipse"
    ELSE IF Abs(theta - alpha) < AngleTol THEN "parabola"
    ELSE "hyperbola"

\* C18: calculateConeSection tags the section by the angle theta between
\* the cutting plane and the cone axis compared with the half-angle alpha,
\* with tolerance 0.01 rad: 'circle' when theta = 90 degrees (plane
\* perpendicular to the axis), 'ellipse' when theta > alpha, 'parabola'
\* when theta = alpha, 'hyperbola' when theta < alpha; it returns zero
\* loops and zero points for every input.
C18_ConeTagByPlaneAngle ==
    (ConeReturned /\ planeNormal # Origin) =>
        /\ result.curveType = conicTag(planeToAxisAngle, coneHalfAngle)
        /\ result.loops = <<>>
        /\ result.points3D = <<>>

-----------------------------------------------------------------------------
(* Properties of the intersector, vertex by vertex *)

\* the vertices of the triangle just processed
lastTriangle == mesh[tri - 1]

\* the vertices of the triangle just processed that lie on the plane, and
\* those at least 1e-10 off it
onPlaneVertices == {c \in 1..3 : lastDistances[c] = 0}

offPlaneVertices == {c \in 1..3 : Abs(lastDistances[c]) >= epsOf(normalUnit)}

\* the outcome of the intersector as the set of the end points of its
\* segment, empty without a segment
outcome(v1, v2, v3) ==
    LET segs == processTriangle(v1, v2, v3, planePoint, planeNormal, epsOf(normalUnit))
    IN  IF segs = <<>> THEN {} ELSE {segs[1][1], segs[1][2]}

\* C21: a vertex within 1e-10 of the plane is recorded whenever fewer than
\* 2 intersection points have been recorded so far, for each of the three
\* vertices: a triangle with exactly two vertices on the plane and the third
\* off it yields the segment joining the two on-plane vertices, whichever
\* two they are.
C21_TwoVerticesOnPlane ==
    (TriangleProcessed /\ Cardinality(onPlaneVertices) = 2
     /\ Cardinality(offPlaneVertices) = 1) =>
        /\ Len(intersections) = 2
        /\ outcome(lastTriangle[1], lastTriangle[2], lastTriangle[3])
              = {lastTriangle[c] : c \in onPlaneVertices}

\* the six orderings of three vertices
Orderings ==
    {<<1, 2, 3>>, <<2, 3, 1>>, <<3, 1, 2>>, <<1, 3, 2>>, <<3, 2, 1>>, <<2, 1, 3>>}

\* C22: the intersector's result does not depend on the order in which the
\* mesh lists the triangle's vertices: all six orderings give no segment,
\* or all six give a segment with the same unordered pair of end points.
C22_OrderIrrelevant ==
    TriangleProcessed =>
        \A o \in Orderings :
            outcome(lastTriangle[o[1]], lastTriangle[o[2]], lastTriangle[o[3]])
                = outcome(lastTriangle[1], lastTriangle[2], lastTriangle[3])

\* C29: every triangle with a vertex strictly on each side of the plane
\* contributes exactly one segment to the raw segment list, whatever the
\* distance of the third vertex, also a non-zero one below 1e-10.
C29_CrossingTriangleOneSegment ==
    (TriangleProcessed
     /\ (\E c \in 1..3 : lastDistances[c] > 0)
     /\ (\E c \in 1..3 : lastDistances[c] < 0)) =>
        Len(lastSegments) = 1

-----------------------------------------------------------------------------
(* Properties of the loop assembler, step by step *)

\* connectSegmentsToLoops is running
Assembling ==
    entry \in {"mesh", "segments"} /\ pc \in {"seed", "forward", "backward", "close"}

unusedSegments == (1..Len(deduplicatedSegments)) \ usedSegments

\* an upper bound of the steps left before the call returns
stepsLeft ==
    IF pc = "done" THEN 0
    ELSE IF pc \in {"assembled", "call"} THEN 1
    ELSE IF pc = "seed" THEN 2 + 4 * Cardinality(unusedSegments)
    ELSE IF pc = "close" THEN 3 + 4 * Cardinality(unusedSegments)
    ELSE IF pc = "backward" THEN 4 + 4 * Cardinality(unusedSegments)
    ELSE IF pc = "forward" THEN 5 + 4 * Cardinality(unusedSegments)
    ELSE IF pc = "connect" THEN 3 + 4 * Len(segments)
    ELSE 4 + 4 * Len(segments) + 5 * (Len(mesh) + 1 - tri)

\* a step of the assembler marks at most one segment, an unused one, and
\* adds one point to the loop for it (two for the seed)
MarksUnusedOnly ==
    /\ usedSegments \subseteq usedSegments'
    /\ Cardinality(usedSegments' \ usedSegments) <= 1
    /\ (pc = "seed") =>
          /\ Cardinality(usedSegments' \ usedSegments) = 1
          /\ \E i \in unusedSegments :
                /\ usedSegments' = usedSegments \cup {i}
                /\ loopPoints' = <<deduplicatedSegments[i][1], deduplicatedSegments[i][2]>>
    /\ (pc \in {"forward", "backward"}) =>
          Len(loopPoints') = Len(loopPoints) + Cardinality(usedSegments' \ usedSegments)
    /\ (pc = "close") => usedSegments' = usedSegments

\* C23: connectSegmentsToLoops terminates for every finite segment list:
\* every step lowers a bound of the steps left and the outer loop is
\* entered only with an unused segment, the one guard a step of the
\* assembler has; each outer iteration seeds a loop with an unused
\* segment, a used segment is never appended again, and on termination
\* every deduplicated segment has been marked used, once.
C23_AssemblerTerminates ==
    /\ [](pc = "seed" => unusedSegments # {})
    /\ [](stepsLeft >= 0)
    /\ [][entry # "scene" => stepsLeft' < stepsLeft]_vars
    /\ [][Assembling => MarksUnusedOnly]_vars
    /\ []((entry \in {"mesh", "segments"} /\ pc \in {"assembled", "done"}) =>
             /\ usedSegments = 1..Len(deduplicatedSegments)
             /\ segmentsIn(loops) + segmentsIn(discarded) = Len(deduplicatedSegments))

\* the assembler has returned after two outer iterations that consumed
\* three segments
C23_Witness ==
    /\ entry = "segments" /\ pc = "done"
    /\ Len(deduplicatedSegments) = 3
    /\ usedSegments = {1, 2, 3}
    /\ Len(loops) + Len(discarded) = 2

\* the loop the closure step stores or drops
closedLoopOf ==
    IF Len(loops') > Len(loops) THEN loops'[Len(loops')] ELSE discarded'[Len(discarded')]

\* some consumed segment joins the points a and b
joinedByUsedSegment(a, b) ==
    \E i \in usedSegments :
        \/ deduplicatedSegments[i] = <<a, b>>
        \/ deduplicatedSegments[i] = <<b, a>>

\* C24: a loop is flagged closed if and only if, after both traces, it
\* holds more than 2 collected points and its first and last collected
\* points are within the tolerance of each other; a closed loop is stored
\* without the duplicate closing point, so that in every returned closed
\* loop the first and the last stored point are different vertices joined by
\* a consumed segment.
C24_ClosureTest ==
    /\ [][(entry \in {"mesh", "segments"} /\ pc = "close") =>
            LET n == Len(loopPoints)
                near == n > 2 /\ distanceLess(loopPoints[1], loopPoints[n], Tol)
            IN  /\ closedLoopOf.isClosed <=> near
                /\ near => closedLoopOf.points = SubSeq(loopPoints, 1, n - 1)
                /\ ~near => closedLoopOf.points = loopPoints]_vars
    /\ []((entry \in {"mesh", "segments"} /\ pc \in {"assembled", "done"}) =>
             \A k \in 1..Len(loops) :
                 loops[k].isClosed =>
                     LET first == loops[k].points[1]
                         last == loops[k].points[Len(loops[k].points)]
                     IN  /\ first # last
                         /\ ~distanceLess(first, last, Tol)
                         /\ joinedByUsedSegment(first, last))

\* connectSegmentsToLoops has returned its loops
Assembled == entry \in {"mesh", "segments"} /\ pc \in {"assembled", "done"}

\* C25: no two stored points of one returned loop are the same welded
\* vertex (within the tolerance of each other), also for segment lists with
\* a vertex of degree above 2 and with repeated segments.
C25_NoRepeatedVertex ==
    Assembled =>
        \A k \in 1..Len(loops) :
            \A i, j \in 1..Len(loops[k].points) :
                i # j => ~distanceLess(loops[k].points[i], loops[k].points[j], Tol)

\* C27: the adjacency index has one bucket per canonical point: two end
\* points fall in the same bucket if and only if they are the same
\* canonical point, so every deduplicated segment is listed in exactly two
\* different buckets, once each.
C27_BucketPerCanonicalPoint ==
    Welded =>
        /\ \A p, q \in endpoints(deduplicatedSegments) :
              (pointKey(p) = pointKey(q)) <=> (p = q)
        /\ \A i \in 1..Len(deduplicatedSegments) :
              LET listed(key) ==
                      Cardinality({k \in 1..Len(pointToSegments(deduplicatedSegments, key)) :
                                      pointToSegments(deduplicatedSegments, key)[k] = i})
                  keys == {pointKey(p) : p \in endpoints(deduplicatedSegments)}
              IN  /\ Cardinality({key \in keys : listed(key) > 0}) = 2
                  /\ \A key \in keys : listed(key) <= 1

\* the pairs of points a loop joins: consecutive stored points and, for a
\* closed loop, the last and the first
joints(loop) ==
    LET n == Len(loop.points)
    IN  [k \in 1..(IF loop.isClosed THEN n ELSE n - 1) |->
            {loop.points[k], loop.points[IF k = n THEN 1 ELSE k + 1]}]

\* C28: every returned loop is a walk in the welded segment graph: each
\* pair of consecutive stored points (and the last and first of a closed
\* loop) are the two end points of a deduplicated segment, a different
\* segment for each pair.
C28_LoopIsWalk ==
    Assembled =>
        \A k \in 1..Len(loops) :
            LET js == joints(loops[k])
            IN  \A h \in 1..Len(js) :
                    Cardinality({g \in 1..Len(js) : js[g] = js[h]})
                        <= Cardinality({i \in 1..Len(deduplicatedSegments) :
                               {deduplicatedSegments[i][1], deduplicatedSegments[i][2]} = js[h]})

\* the unused segments incident to the point the running trace has reached:
\* those listed under its key
candidates ==
    {i \in unusedSegments : currentKey \in {pointKey(deduplicatedSegments[i][1]),
                                               pointKey(deduplicatedSegments[i][2])}}

-----------------------------------------------------------------------------
(* Properties of GlassBoxScene *)

\* a 2D section overlay is displayed on the views
overlayDisplayed ==
    entry = "scene" /\ scene.showSectionPlane /\ scene.sectionResult # <<>>

\* C30: after any sequence of events and once pending effects have run,
\* whenever a 2D section overlay is displayed the stored sectionResult is
\* the calculateMeshSection result for the current geometry and the current
\* plane; a result of an earlier geometry or plane is never displayed.
C30_OverlayIsCurrent ==
    (entry = "scene" /\ pc = "idle" /\ overlayDisplayed) =>
        scene.sectionResult[1]
            = calculateMeshSection(sceneMesh(scene.geometry),
                  planeParams(scene.planePosition, scene.planeRotation).position,
                  planeParams(scene.planePosition, scene.planeRotation).normal, 1)

====
